---- MODULE Spec2Model ----
(***************************************************************************)
(* Model of scripts/generate_data.py, the synthetic Student 360 dataset    *)
(* generator.                                                              *)
(*                                                                         *)
(* Every generate_* function is an operator of its arguments and of a      *)
(* "tape": the values its random draws return, one record per loop         *)
(* iteration, in the order the loop consumes them.  The process run        *)
(* (main) takes every tape from the seeded generator state rng, so a run   *)
(* is a function of the seed; the specifications of the single functions   *)
(* let the tape range over bounded sets of the values the draws can        *)
(* return.                                                                 *)
(*                                                                         *)
(* Identifiers are the strings the code formats.  Dates are day numbers    *)
(* counted from 2024-01-01 (day 0).  Columns that are drawn and written    *)
(* but that no later statement of the program reads (names, e-mail, dob,   *)
(* gender, ethnicity, residency, major, title, department, outcome,        *)
(* category, payment method, aid type, deposit flag, late flag, risk flag, *)
(* modality, event type) are left out of the rows.                         *)
(***************************************************************************)
EXTENDS Integers, Sequences, FiniteSets, TLC

VARIABLES
    pc,               \* position of the process in main, or in a single call
    exc,              \* the uncaught exception that ended the process, or "none"
    num_students,     \* args.num_students
    seed,             \* args.seed
    rng,              \* state of the process-wide random generator
    hashseed,         \* the interpreter's per-process string hash salt
    run,              \* number of the process invocation (1, 2, ...)
    files,            \* the output directory tree: path -> file
    prev_files,       \* the tree as the previous invocation left it
    terms, courses, sections, advisors, students, enrollments, courses_by_id,
    xwalk, lms_logins, submissions,
    applications, tests,
    student_accounts, transactions, aid_awards,
    appointments, notes,
    upload_args,      \* upload_to_s3.py: args.bucket, args.region, the environment's region, isdir(data_dir)
    region,           \* upload_to_s3.py: region of main, "" before get_region
    commands,         \* upload_to_s3.py: the commands run() was called with, and their outcomes
    status            \* upload_to_s3.py: exit status of the process, -1 while it runs

args    == <<num_students, seed>>
process == <<pc, exc, rng, hashseed, run>>
disk    == <<files, prev_files>>
refdata == <<terms, courses, sections, advisors, students, enrollments, courses_by_id>>
lms     == <<xwalk, lms_logins, submissions>>
adm     == <<applications, tests>>
fin     == <<student_accounts, transactions, aid_awards>>
adv     == <<appointments, notes>>
uploader == <<upload_args, region, commands, status>>
vars    == <<args, process, disk, refdata, lms, adm, fin, adv, uploader>>

(***************************************************************************)
(* Bounds of the model.                                                    *)
(***************************************************************************)
\* generate_catalog draws subjects among the first MaxSubjects of its list
MaxSubjects == 2
\* ... and catalog numbers among 100 .. 100 + MaxCatalogNbrs - 1
MaxCatalogNbrs == 2
\* len(courses) of the catalogs handed to the later stages checked on their own
InputCourses == 2
\* num_advisors of the advisor pool (50 in the source)
ModelAdvisors == 2
\* num_courses of the calls of generate_catalog checked on their own
CatalogCourses == 3
\* num_courses of the catalog of a process run (120 in the source)
MainCourses == 5
\* a process run is given --num-students in -1 .. MaxStudents
MaxStudents == 2
\* ... and --seed in 360 .. 360 + MaxSeeds - 1
MaxSeeds == 2
\* the interpreter draws its hash salt in 0 .. MaxHashSeed
MaxHashSeed == 1
\* process invocations on the same output directory
MaxRuns == 2
\* num_students of the calls of generate_students checked on their own
PoolStudents == 4
\* len(students) of the calls of generate_enrollments and generate_financials
\* checked on their own
InputStudents == 2
\* a randint(lo, hi) of generate_financials checked on its own returns one of
\* the MaxSpread lowest or MaxSpread highest values of lo .. hi
MaxSpread == 1

(***************************************************************************)
(* Helpers.                                                                *)
(***************************************************************************)
Range(s) == {s[i] : i \in DOMAIN s}

Min(a, b) == IF a < b THEN a ELSE b

Max(a, b) == IF a > b THEN a ELSE b

RECURSIVE SumSeq(_)
SumSeq(s) == IF s = <<>> THEN 0 ELSE s[1] + SumSeq(Tail(s))

RECURSIVE Flatten(_)
Flatten(ss) == IF ss = <<>> THEN <<>> ELSE ss[1] \o Flatten(Tail(ss))

RECURSIVE PadLeft(_, _)
PadLeft(t, w) == IF Len(t) >= w THEN t ELSE PadLeft("0" \o t, w)

\* f"{n:0{w}d}" for n >= 0
ZeroPad(n, w) == PadLeft(ToString(n), w)

\* s.index(x): the first position of x in s
IndexOf(s, x) == CHOOSE i \in 1..Len(s) : s[i] = x /\ \A j \in 1..(i - 1) : s[j] # x

\* the sequences of k distinct positions of a list of n elements
Samples(n, k) == {s \in [1..k -> 1..n] : \A i, j \in 1..k : i # j => s[i] # s[j]}

\* the text of s before position i or before the first "-" from i on
RECURSIVE BeforeDash(_, _)
BeforeDash(s, i) ==
    IF i > Len(s) \/ SubSeq(s, i, i) = "-" THEN SubSeq(s, 1, i - 1) ELSE BeforeDash(s, i + 1)

\* s.split("-")[0]: the text before the first "-" (all of s when it has none)
SplitDash0(s) == BeforeDash(s, 1)

(***************************************************************************)
(* generate_terms                                                          *)
(***************************************************************************)
generate_terms ==
    << [term_id |-> "2024FA", term_name |-> "Fall 2024",
        start_date |-> 238, end_date |-> 347],
       [term_id |-> "2025SP", term_name |-> "Spring 2025",
        start_date |-> 378, end_date |-> 487],
       [term_id |-> "2025FA", term_name |-> "Fall 2025",
        start_date |-> 602, end_date |-> 711] >>

(***************************************************************************)
(* generate_catalog                                                        *)
(***************************************************************************)
subjects ==
    << "MATH", "ENG", "CS", "BIO", "CHEM", "HIST", "ECON", "PSYC", "PHYS",
       "ART", "STAT", "BUS", "SOC", "PHIL" >>

unit_choices == <<3, 3, 3, 4>>

\* The values one iteration of the catalog loop can draw, within the bounds.
CatalogDraws ==
    [ subj  : {subjects[i] : i \in 1..Min(MaxSubjects, Len(subjects))},
      nbr   : {n \in 100..499 : n < 100 + MaxCatalogNbrs},
      units : Range(unit_choices) ]

\* One iteration of the while loop: the course appended.
catalog_row(d) ==
    [ course_id   |-> d.subj \o ToString(d.nbr),
      subject     |-> d.subj,
      catalog_nbr |-> ToString(d.nbr),
      units       |-> d.units ]

\* The loop appends one course per iteration until len(courses) reaches
\* num_courses; no iteration looks at the courses already appended.
generate_catalog(num_courses, tape) ==
    [i \in 1..Max(num_courses, 0) |-> catalog_row(tape[i])]

(***************************************************************************)
(* generate_sections                                                       *)
(***************************************************************************)
section_choices == <<1, 1, 1, 2, 3>>

\* The sections of one (term, course) pair: the inner for loop.
pair_sections(course, term, d) ==
    [ section_nbr \in 1..d.num_sections |->
        [ course_section_id |->
              course.course_id \o "-" \o term.term_id \o "-S" \o ZeroPad(section_nbr, 2),
          course_id   |-> course.course_id,
          term_id     |-> term.term_id,
          section_nbr |-> section_nbr ] ]

\* for term in terms: for course in courses: ...; tape[p] holds the draw of
\* the p-th (term, course) pair in loop order.
generate_sections(cs, ts, tape) ==
    Flatten([ p \in 1..(Len(ts) * Len(cs)) |->
        pair_sections(cs[((p - 1) % Len(cs)) + 1],
                      ts[((p - 1) \div Len(cs)) + 1],
                      tape[p]) ])

(***************************************************************************)
(* generate_advisors                                                       *)
(***************************************************************************)
generate_advisors(num_advisors) ==
    [i \in 1..Max(num_advisors, 0) |-> [advisor_id |-> "ADV" \o ZeroPad(i, 3)]]

(***************************************************************************)
(* generate_students                                                       *)
(***************************************************************************)
base_sid == 10000000

standings == <<"Freshman", "Sophomore", "Junior", "Senior">>

TermIds(ts) == [i \in 1..Len(ts) |-> ts[i].term_id]

\* Faulty variant of StudentDraws: the admit term is drawn from term_ids, the
\* last term included.
StudentDraws_all_terms(ts, advs) ==
    [ admit   : {ts[i].term_id : i \in 1..Len(ts)},
      advisor : {advs[i].advisor_id : i \in 1..Len(advs)} ]

\* what one iteration can draw: term_ids[:-1] and the advisor list
StudentDraws(ts, advs) ==
    [ admit   : {ts[i].term_id : i \in 1..(Len(ts) - 1)},
      advisor : {advs[i].advisor_id : i \in 1..Len(advs)} ]

\* Faulty variant of term_distance: the difference taken the other way round.
term_distance_reversed(term_ids, admit_term_id, current_term_id) ==
    IndexOf(term_ids, admit_term_id) - IndexOf(term_ids, current_term_id)

\* the distance between two terms of the list, in positions
term_distance(term_ids, admit_term_id, current_term_id) ==
    IndexOf(term_ids, current_term_id) - IndexOf(term_ids, admit_term_id)

\* One iteration of the for loop, i = 0, 1, ...
student_row(i, ts, d) ==
    LET term_ids        == TermIds(ts)
        current_term_id == term_ids[Len(term_ids)]
        term_index      == term_distance(term_ids, d.admit, current_term_id)
    IN  [ student_id      |-> base_sid + i,
          admit_term_id   |-> d.admit,
          current_term_id |-> current_term_id,
          class_standing  |-> standings[Min(Max(term_index, 0), 3) + 1],
          advisor_id      |-> d.advisor ]

generate_students(n, ts, advs, tape) ==
    [i \in 1..Max(n, 0) |-> student_row(i - 1, ts, tape[i])]

(***************************************************************************)
(* generate_enrollments                                                    *)
(***************************************************************************)
grade_letters == <<"A", "A-", "B+", "B", "B-", "C+", "C", "D", "F">>

\* Faulty variant of grade_points_of: the entry of D holds the points of D+.
grade_points_of_d_plus(grade_letter) ==
    CASE grade_letter = "A"  -> "4.0"
      [] grade_letter = "A-" -> "3.7"
      [] grade_letter = "B+" -> "3.3"
      [] grade_letter = "B"  -> "3.0"
      [] grade_letter = "B-" -> "2.7"
      [] grade_letter = "C+" -> "2.3"
      [] grade_letter = "C"  -> "2.0"
      [] grade_letter = "D"  -> "1.3"
      [] grade_letter = "F"  -> "0.0"

\* the dict literal of the inner loop; the float is the text csv writes
grade_points_of(grade_letter) ==
    CASE grade_letter = "A"  -> "4.0"
      [] grade_letter = "A-" -> "3.7"
      [] grade_letter = "B+" -> "3.3"
      [] grade_letter = "B"  -> "3.0"
      [] grade_letter = "B-" -> "2.7"
      [] grade_letter = "C+" -> "2.3"
      [] grade_letter = "C"  -> "2.0"
      [] grade_letter = "D"  -> "1.0"
      [] grade_letter = "F"  -> "0.0"

\* sections_by_term[t]: the sections of term t, in list order
sections_by_term(secs, t) == SelectSeq(secs, LAMBDA s : s.term_id = t)

\* Faulty variant of current_sample_sizes: a sample of three is possible.
current_sample_sizes_from_three == <<3, 4, 5>>

current_sample_sizes == <<4, 4, 5>>

prior_sample_sizes == <<3, 4>>

\* The rows of the current term of one student.
current_rows(student, current_sections, current_term_id, d) ==
    [ j \in 1..Len(d.cur) |->
        [ student_id        |-> student.student_id,
          course_section_id |-> current_sections[d.cur[j]].course_section_id,
          term_id           |-> current_term_id,
          enrollment_status |-> "ENROLLED",
          grade_letter      |-> "",
          grade_points      |-> "" ] ]

\* The rows of the prior term of one student whose draw took the 0.4 branch.
prior_rows(student, prior_sections, prior_term_id, d) ==
    [ j \in 1..Len(d.prior) |->
        [ student_id        |-> student.student_id,
          course_section_id |-> prior_sections[d.prior[j]].course_section_id,
          term_id           |-> prior_term_id,
          enrollment_status |-> "COMPLETED",
          grade_letter      |-> d.grades[j],
          grade_points      |-> grade_points_of(d.grades[j]) ] ]

\* Faulty variant of enroll_student: the prior sample is taken from the
\* sections of the current term.
enroll_student_prior_from_current(student, secs, ts, d) ==
    LET current_term_id == ts[Len(ts)].term_id
        prior_term_id   == ts[Len(ts) - 1].term_id
    IN  current_rows(student, sections_by_term(secs, current_term_id), current_term_id, d)
        \o (IF d.has_prior
            THEN prior_rows(student, sections_by_term(secs, current_term_id), prior_term_id, d)
            ELSE <<>>)

\* Faulty variant of enroll_student: the prior rows carry the term two before
\* the current one.
enroll_student_prior_two_back(student, secs, ts, d) ==
    LET current_term_id == ts[Len(ts)].term_id
        prior_term_id   == ts[Len(ts) - 1].term_id
    IN  current_rows(student, sections_by_term(secs, current_term_id), current_term_id, d)
        \o (IF d.has_prior
            THEN prior_rows(student, sections_by_term(secs, prior_term_id),
                            ts[Len(ts) - 2].term_id, d)
            ELSE <<>>)

\* One iteration of the for loop over the students.
\* d.cur and d.prior are the samples (positions in the term's section list),
\* d.has_prior is random.random() < 0.4, d.grades the letters drawn.
enroll_student(student, secs, ts, d) ==
    LET current_term_id == ts[Len(ts)].term_id
        prior_term_id   == ts[Len(ts) - 1].term_id
    IN  current_rows(student, sections_by_term(secs, current_term_id), current_term_id, d)
        \o (IF d.has_prior
            THEN prior_rows(student, sections_by_term(secs, prior_term_id), prior_term_id, d)
            ELSE <<>>)

generate_enrollments(studs, secs, ts, tape) ==
    Flatten([i \in 1..Len(studs) |-> enroll_student(studs[i], secs, ts, tape[i])])

\* The draws of one student: len(d.cur) in {4, 5}, len(d.prior) in {3, 4}.
NoPrior(cur) == [cur |-> cur, has_prior |-> FALSE, prior |-> <<>>, grades |-> <<>>]

WithPrior(cur, prior, grades) ==
    [cur |-> cur, has_prior |-> TRUE, prior |-> prior, grades |-> grades]

(***************************************************************************)
(* generate_lms                                                            *)
(***************************************************************************)
hash_alphabet ==
    << "-", "0", "1", "2", "3", "4", "5", "6", "7", "8", "9",
       "A", "B", "C", "D", "E", "F", "G", "H", "I", "J", "K", "L", "M",
       "N", "O", "P", "Q", "R", "S", "T", "U", "V", "W", "X", "Y", "Z" >>

\* the number the hash gives a character: its position in hash_alphabet
CharCode == [c \in Range(hash_alphabet) |-> IndexOf(hash_alphabet, c)]

RECURSIVE HashFrom(_, _, _)
HashFrom(s, i, acc) ==
    IF i > Len(s) THEN acc
    ELSE HashFrom(s, i + 1, (acc * 131 + CharCode[SubSeq(s, i, i)]) % 15485863)

\* hash(s) of a str: a keyed hash whose key the interpreter draws when the
\* process starts (PYTHONHASHSEED unset), the same for equal strings within
\* one process; signed.
PyHash(s, salt) == HashFrom(s, 1, (salt * 7919 + 5381) % 15485863) - 7742931

Abs(x) == IF x < 0 THEN -x ELSE x

\* f"LMS-{abs(hash(csid)) % 10_000_000:07d}"
lms_course_id_of(csid, salt) == "LMS-" \o ZeroPad(Abs(PyHash(csid, salt)) % 10000000, 7)

\* the first loop: one crosswalk row per section, in list order
lms_xwalk(secs, salt) ==
    [ i \in 1..Len(secs) |->
        [ course_section_id |-> secs[i].course_section_id,
          lms_course_id     |-> lms_course_id_of(secs[i].course_section_id, salt) ] ]

\* Faulty variant of term_dates: the spring term is given the year 2024.
term_dates_spring_2024(term_id) ==
    CASE term_id = "2024FA" -> [start_dt |-> 238, end_dt |-> 347]
      [] term_id = "2025SP" -> [start_dt |-> 12, end_dt |-> 122]
      [] term_id = "2025FA" -> [start_dt |-> 602, end_dt |-> 711]

\* the dict term_dates of generate_lms
term_dates(term_id) ==
    CASE term_id = "2024FA" -> [start_dt |-> 238, end_dt |-> 347]
      [] term_id = "2025SP" -> [start_dt |-> 378, end_dt |-> 487]
      [] term_id = "2025FA" -> [start_dt |-> 602, end_dt |-> 711]

logins_per_enrollment == 6

\* A timestamp is [day, minute]: the day number and the minute of that day.
\* The 6 login rows of one enrollment whose section has the given
\* lms_course_id; d.logins[j] = [days, hours, minutes].
login_rows_of(enr, lms_course_id, d) ==
    [ j \in 1..logins_per_enrollment |->
        [ student_id    |-> enr.student_id,
          lms_course_id |-> lms_course_id,
          event_ts      |-> [ day    |-> term_dates(enr.term_id).start_dt + d.logins[j].days,
                              minute |-> d.logins[j].hours * 60 + d.logins[j].minutes ] ] ]

\* lms_course_id = lms_id_by_section[csid], then the login loop
login_rows(enr, salt, d) ==
    login_rows_of(enr, lms_course_id_of(enr.course_section_id, salt), d)

\* Faulty variant of submission_rows_of: the assignments are numbered from 0.
submission_rows_from_zero(enr, lms_course_id, d) ==
    [ aidx \in 1..4 |->
        [ student_id    |-> enr.student_id,
          lms_course_id |-> lms_course_id,
          assignment_id |-> "A" \o ZeroPad(aidx - 1, 2),
          submitted_ts  |-> [ day    |-> term_dates(enr.term_id).start_dt + d.subs[aidx].days,
                              minute |-> 0 ],
          score         |-> d.subs[aidx].score,
          max_score     |-> 100 ] ]

\* The 4 submission rows of one enrollment; d.subs[aidx] = [days, score].
submission_rows_of(enr, lms_course_id, d) ==
    [ aidx \in 1..4 |->
        [ student_id    |-> enr.student_id,
          lms_course_id |-> lms_course_id,
          assignment_id |-> "A" \o ZeroPad(aidx, 2),
          submitted_ts  |-> [ day    |-> term_dates(enr.term_id).start_dt + d.subs[aidx].days,
                              minute |-> 0 ],
          score         |-> d.subs[aidx].score,
          max_score     |-> 100 ] ]

submission_rows(enr, salt, d) ==
    submission_rows_of(enr, lms_course_id_of(enr.course_section_id, salt), d)

\* returns (xwalk, lms_logins, submissions)
generate_lms(enrs, secs, salt, tape) ==
    [ xwalk       |-> lms_xwalk(secs, salt),
      lms_logins  |-> Flatten([i \in 1..Len(enrs) |-> login_rows(enrs[i], salt, tape[i])]),
      submissions |-> Flatten([i \in 1..Len(enrs) |-> submission_rows(enrs[i], salt, tape[i])]) ]

(***************************************************************************)
(* generate_admissions                                                     *)
(***************************************************************************)
\* Faulty variant of application_row: the application is anchored to the
\* student's current term.
application_row_current_term(s, d) ==
    [ student_id      |-> s.student_id,
      application_id  |-> "APP" \o ToString(s.student_id),
      app_term_id     |-> s.current_term_id,
      app_complete_dt |-> d.complete_days,
      decision        |-> "Admit",
      decision_dt     |-> d.complete_days + d.decision_days ]

\* The application of one student; d = [complete_days, decision_days, ...].
application_row(s, d) ==
    [ student_id      |-> s.student_id,
      application_id  |-> "APP" \o ToString(s.student_id),
      app_term_id     |-> s.admit_term_id,
      app_complete_dt |-> d.complete_days,
      decision        |-> "Admit",
      decision_dt     |-> d.complete_days + d.decision_days ]

\* The test score of one student, when random.random() < 0.6 (d.has_test).
test_rows(s, d) ==
    IF d.has_test
    THEN << [ student_id |-> s.student_id,
              test_type  |-> d.test_type,
              test_date  |-> d.complete_days - d.test_days,
              score      |-> d.score ] >>
    ELSE <<>>

\* returns (applications, tests)
generate_admissions(studs, ts, tape) ==
    [ applications |-> [i \in 1..Len(studs) |-> application_row(studs[i], tape[i])],
      tests        |-> Flatten([i \in 1..Len(studs) |-> test_rows(studs[i], tape[i])]) ]

(***************************************************************************)
(* generate_financials                                                     *)
(***************************************************************************)
\* courses_by_id = {c["course_id"]: c for c in courses}: a later course with
\* the same id replaces the earlier one
CoursesById(cs) ==
    [ id \in {cs[i].course_id : i \in 1..Len(cs)} |->
        cs[CHOOSE i \in 1..Len(cs) :
              /\ cs[i].course_id = id
              /\ \A j \in 1..Len(cs) : cs[j].course_id = id => j <= i] ]

\* units_by_section[csid], as the first loop fills it
units_by_section(by_id, csid) == by_id[SplitDash0(csid)].units

EndsWith(s, suffix) ==
    Len(s) >= Len(suffix) /\ SubSeq(s, Len(s) - Len(suffix) + 1, Len(s)) = suffix

\* the keys of enrollments_by_student_term, in insertion order: the key of
\* every enrollment that is the first of the list with that key
GroupKeys(enrs) ==
    LET key_of(i) == <<enrs[i].student_id, enrs[i].term_id>>
        firsts    == SelectSeq([i \in 1..Len(enrs) |-> i],
                               LAMBDA i : \A j \in 1..(i - 1) : key_of(j) # key_of(i))
    IN  [g \in 1..Len(firsts) |-> key_of(firsts[g])]

\* enrollments_by_student_term[key]
group_enrollments(enrs, key) ==
    SelectSeq(enrs, LAMBDA e : <<e.student_id, e.term_id>> = key)

\* the PAYMENT rows of one group: payment j has id trans_id + j - 1
payment_rows(key, amts, trans_id) ==
    [ j \in 1..Len(amts) |->
        [ transaction_id |-> "TX" \o ZeroPad(trans_id + j - 1, 9),
          student_id     |-> key[1],
          term_id        |-> key[2],
          trans_dt       |-> IF EndsWith(key[2], "SP") THEN 397 ELSE 609,
          trans_type     |-> "PAYMENT",
          amount         |-> amts[j] ] ]

\* Faulty variant of charge_row: the charge is billed short of total_charges.
charge_row_short(key, total_charges, trans_id) ==
    [ transaction_id |-> "TX" \o ZeroPad(trans_id, 9),
      student_id     |-> key[1],
      term_id        |-> key[2],
      trans_dt       |-> IF EndsWith(key[2], "SP") THEN 385 ELSE 605,
      trans_type     |-> "CHARGE",
      amount         |-> total_charges - 100 ]

\* the CHARGE row of one group
charge_row(key, total_charges, trans_id) ==
    [ transaction_id |-> "TX" \o ZeroPad(trans_id, 9),
      student_id     |-> key[1],
      term_id        |-> key[2],
      trans_dt       |-> IF EndsWith(key[2], "SP") THEN 385 ELSE 605,
      trans_type     |-> "CHARGE",
      amount         |-> total_charges ]

\* Faulty variant of award_rows: the row is appended whether or not the group
\* drew aid, with the aid of the account (0 without aid).
award_rows_always(key, d, award_id) ==
    << [ award_id     |-> "AWD" \o ZeroPad(award_id, 7),
         student_id   |-> key[1],
         term_id      |-> key[2],
         amount       |-> IF d.has_aid THEN d.aid ELSE 0,
         disbursed_dt |-> IF EndsWith(key[2], "SP") THEN 375 ELSE 597 ] >>

\* the AidAward row of one group that drew aid
award_rows(key, d, award_id) ==
    IF d.has_aid
    THEN << [ award_id     |-> "AWD" \o ZeroPad(award_id, 7),
              student_id   |-> key[1],
              term_id      |-> key[2],
              amount       |-> d.aid,
              disbursed_dt |-> IF EndsWith(key[2], "SP") THEN 375 ELSE 597 ] >>
    ELSE <<>>

\* round(x, 2) of an int is that int: every amount of the function is an int
round2(x) == x

\* total_charges of one group
group_charges(enr_list, by_id, d) ==
    LET total_units == SumSeq([j \in 1..Len(enr_list) |->
                                  units_by_section(by_id, enr_list[j].course_section_id)])
        charges     == total_units * d.rate
    IN  round2(charges + d.fees)

\* Faulty variant of account_row: the aid is left out of total_payments.
account_row_without_aid(key, total_charges, payments, aid) ==
    LET total_payments == payments
        balance        == round2(total_charges - total_payments)
    IN  [ student_id     |-> key[1],
          term_id        |-> key[2],
          total_charges  |-> round2(total_charges),
          total_payments |-> round2(total_payments),
          balance        |-> balance ]

\* the StudentAccount row of one group
account_row(key, total_charges, payments, aid) ==
    LET total_payments == payments + aid
        balance        == round2(total_charges - total_payments)
    IN  [ student_id     |-> key[1],
          term_id        |-> key[2],
          total_charges  |-> round2(total_charges),
          total_payments |-> round2(total_payments),
          balance        |-> balance ]

\* One iteration of the loop over the groups.
\* d = [rate, fees, has_aid, aid, amts]; amts are the 1-3 payment amounts.
financial_group(key, enr_list, by_id, d, trans_id, award_id) ==
    LET total_charges == group_charges(enr_list, by_id, d)
        aid           == IF d.has_aid THEN d.aid ELSE 0
    IN  [ account      |-> account_row(key, total_charges, SumSeq(d.amts), aid),
          transactions |-> Append(payment_rows(key, d.amts, trans_id),
                                  charge_row(key, total_charges, trans_id + Len(d.amts))),
          aid_awards   |-> award_rows(key, d, award_id) ]

\* The loop over the groups, from group g on.  trans_id and award_id are
\* incremented once per row appended.
RECURSIVE financial_loop(_, _, _, _, _, _, _, _)
financial_loop(keys, g, enrs, by_id, tape, trans_id, award_id, out) ==
    IF g > Len(keys) THEN out
    ELSE LET r == financial_group(keys[g], group_enrollments(enrs, keys[g]), by_id,
                                  tape[g], trans_id, award_id)
         IN  financial_loop(keys, g + 1, enrs, by_id, tape,
                 trans_id + Len(r.transactions),
                 award_id + Len(r.aid_awards),
                 [ exc              |-> "none",
                   student_accounts |-> Append(out.student_accounts, r.account),
                   transactions     |-> out.transactions \o r.transactions,
                   aid_awards       |-> out.aid_awards \o r.aid_awards ])

\* returns (student_accounts, transactions, aid_awards), or raises: max() of
\* the empty set of term ids is a ValueError
generate_financials(studs, enrs, by_id, tape) ==
    IF enrs = <<>>
    THEN [ exc |-> "ValueError", student_accounts |-> <<>>,
           transactions |-> <<>>, aid_awards |-> <<>> ]
    ELSE financial_loop(GroupKeys(enrs), 1, enrs, by_id, tape, 1, 1,
             [ exc |-> "none", student_accounts |-> <<>>,
               transactions |-> <<>>, aid_awards |-> <<>> ])

(***************************************************************************)
(* generate_advising                                                       *)
(***************************************************************************)
appointment_counts == <<0, 0, 1, 1, 2, 3>>

appointment_months == <<2, 3, 9, 10>>

\* datetime(2025, month, day) as a day number, for the months drawn
date_2025(month, day) ==
    (CASE month = 2 -> 397 [] month = 3 -> 425 [] month = 9 -> 609 [] month = 10 -> 639)
    + day - 1

\* Faulty variant of advising_student: the note counter is not advanced within
\* a student, so the notes of one student all carry the same note_id.
advising_student_one_note_id(s, d, appt_id, note_id) ==
    [ appointments |->
        [ j \in 1..Len(d.appts) |->
            [ appointment_id |-> "APT" \o ZeroPad(appt_id + j - 1, 7),
              student_id     |-> s.student_id,
              advisor_id     |-> d.appts[j].advisor,
              appointment_dt |-> date_2025(d.appts[j].month, d.appts[j].day) ] ],
      notes |->
        Flatten([ j \in 1..Len(d.appts) |->
            IF d.appts[j].has_note
            THEN << [ note_id    |-> "NOTE" \o ZeroPad(note_id, 7),
                      student_id |-> s.student_id,
                      advisor_id |-> d.appts[j].advisor,
                      note_dt    |-> date_2025(d.appts[j].month, d.appts[j].day) ] >>
            ELSE <<>> ]) ]

\* The rows of one student; d.appts[j] = [advisor, month, day, has_note].
advising_student(s, d, appt_id, note_id) ==
    LET noted(j) == Cardinality({i \in 1..j : d.appts[i].has_note})
    IN  [ appointments |->
            [ j \in 1..Len(d.appts) |->
                [ appointment_id |-> "APT" \o ZeroPad(appt_id + j - 1, 7),
                  student_id     |-> s.student_id,
                  advisor_id     |-> d.appts[j].advisor,
                  appointment_dt |-> date_2025(d.appts[j].month, d.appts[j].day) ] ],
          notes |->
            Flatten([ j \in 1..Len(d.appts) |->
                IF d.appts[j].has_note
                THEN << [ note_id    |-> "NOTE" \o ZeroPad(note_id + noted(j) - 1, 7),
                          student_id |-> s.student_id,
                          advisor_id |-> d.appts[j].advisor,
                          note_dt    |-> date_2025(d.appts[j].month, d.appts[j].day) ] >>
                ELSE <<>> ]) ]

RECURSIVE advising_loop(_, _, _, _, _, _)
advising_loop(studs, i, tape, appt_id, note_id, out) ==
    IF i > Len(studs) THEN out
    ELSE LET r == advising_student(studs[i], tape[i], appt_id, note_id)
         IN  advising_loop(studs, i + 1, tape,
                 appt_id + Len(r.appointments),
                 note_id + Len(r.notes),
                 [ appointments |-> out.appointments \o r.appointments,
                   notes        |-> out.notes \o r.notes ])

\* returns (appointments, notes)
generate_advising(studs, advs, tape) ==
    advising_loop(studs, 1, tape, 1, 1, [appointments |-> <<>>, notes |-> <<>>])

(***************************************************************************)
(* The random generator of a process run.  random.seed(seed) fixes the     *)
(* state; the values drawn afterwards are a function of the state and of   *)
(* the position of the draw.  Each call of a generate_* function reads its *)
(* draws at positions 0, 1, ... of the current state and leaves the next   *)
(* state behind.                                                           *)
(***************************************************************************)
SeedState(sd) == (sd * 40503 + 1) % 65537

NextRng(r) == (r * 75 + 74) % 65537

\* the draw at position pos, reduced to 0 .. m - 1
Rnd(r, pos, m) == (((r * 31 + pos * 9973 + (r % 97) * pos * 613) % 65521) \div 3) % m

\* random.choice(s)
Pick(s, r, pos) == s[Rnd(r, pos, Len(s)) + 1]

\* random.randint(lo, hi)
RandInt(lo, hi, r, pos) == lo + Rnd(r, pos, hi - lo + 1)

\* random.random() < percent / 100
Chance(percent, r, pos) == Rnd(r, pos, 100) < percent

\* random.sample: k distinct positions of pool, one draw each
RECURSIVE SampleFrom(_, _, _, _)
SampleFrom(pool, k, r, pos) ==
    IF k = 0 THEN <<>>
    ELSE LET j == Rnd(r, pos, Len(pool)) + 1
         IN  <<pool[j]>> \o
             SampleFrom(SubSeq(pool, 1, j - 1) \o SubSeq(pool, j + 1, Len(pool)),
                        k - 1, r, pos + 1)

RngSample(n, k, r, pos) == SampleFrom([i \in 1..n |-> i], k, r, pos)

RngCatalogTape(r, n) ==
    [ i \in 1..Max(n, 0) |->
        [ subj  |-> Pick(subjects, r, 4 * i),
          nbr   |-> RandInt(100, 499, r, 4 * i + 1),
          units |-> Pick(unit_choices, r, 4 * i + 3) ] ]

RngSectionTape(r, npairs) ==
    [p \in 1..npairs |-> [num_sections |-> Pick(section_choices, r, 4 * p)]]

RngStudentTape(r, n, ts, advs) ==
    [ i \in 1..Max(n, 0) |->
        [ admit   |-> Pick(SubSeq(TermIds(ts), 1, Len(ts) - 1), r, 12 * i + 8),
          advisor |-> Pick(advs, r, 12 * i + 9).advisor_id ] ]

RngEnrollTape(r, studs, secs, ts) ==
    [ i \in 1..Len(studs) |->
        LET cur   == RngSample(Len(sections_by_term(secs, ts[Len(ts)].term_id)),
                               Pick(current_sample_sizes, r, 20 * i), r, 20 * i + 1)
            k2    == Pick(prior_sample_sizes, r, 20 * i + 8)
            prior == RngSample(Len(sections_by_term(secs, ts[Len(ts) - 1].term_id)),
                               k2, r, 20 * i + 9)
        IN  IF Chance(40, r, 20 * i + 7)
            THEN WithPrior(cur, prior,
                           [j \in 1..k2 |-> Pick(grade_letters, r, 20 * i + 13 + j)])
            ELSE NoPrior(cur) ]

RngLmsTape(r, enrs) ==
    [ i \in 1..Len(enrs) |->
        LET span == term_dates(enrs[i].term_id).end_dt - term_dates(enrs[i].term_id).start_dt
        IN  [ logins |-> [ j \in 1..logins_per_enrollment |->
                             [ days    |-> RandInt(0, span, r, 40 * i + 4 * j),
                               hours   |-> RandInt(8, 20, r, 40 * i + 4 * j + 1),
                               minutes |-> RandInt(0, 59, r, 40 * i + 4 * j + 2) ] ],
              subs   |-> [ aidx \in 1..4 |->
                             [ days  |-> RandInt(7, span, r, 40 * i + 24 + 3 * aidx),
                               score |-> RandInt(60, 100, r, 40 * i + 25 + 3 * aidx) ] ] ] ]

test_types == <<"SAT", "ACT">>

RngAdmissionsTape(r, studs) ==
    [ i \in 1..Len(studs) |->
        LET test_type == Pick(test_types, r, 7 * i + 4)
        IN  [ complete_days |-> RandInt(0, 200, r, 7 * i),
              decision_days |-> RandInt(5, 30, r, 7 * i + 1),
              has_test      |-> Chance(60, r, 7 * i + 3),
              test_type     |-> test_type,
              test_days     |-> RandInt(30, 180, r, 7 * i + 5),
              score         |-> IF test_type = "ACT"
                                THEN RandInt(18, 35, r, 7 * i + 6)
                                ELSE RandInt(900, 1550, r, 7 * i + 6) ] ]

payment_counts == <<1, 2, 3>>

RngFinancialTape(r, ngroups) ==
    [ g \in 1..ngroups |->
        [ rate    |-> IF Chance(70, r, 12 * g) THEN 350 ELSE 650,
          fees    |-> RandInt(100, 400, r, 12 * g + 1),
          has_aid |-> Chance(55, r, 12 * g + 2),
          aid     |-> RandInt(500, 3500, r, 12 * g + 3),
          amts    |-> [ j \in 1..Pick(payment_counts, r, 12 * g + 5) |->
                          RandInt(200, 2000, r, 12 * g + 4 + 2 * j) ] ] ]

RngAdvisingTape(r, studs, advs) ==
    [ i \in 1..Len(studs) |->
        [ appts |-> [ j \in 1..Pick(appointment_counts, r, 20 * i) |->
                        [ advisor  |-> Pick(advs, r, 20 * i + 6 * j - 5).advisor_id,
                          month    |-> Pick(appointment_months, r, 20 * i + 6 * j - 4),
                          day      |-> RandInt(1, 28, r, 20 * i + 6 * j - 3),
                          has_note |-> Chance(50, r, 20 * i + 6 * j - 1) ] ] ] ]

(***************************************************************************)
(* The calls.  Each action is one statement of main: it is enabled at its  *)
(* place pc, binds the result of the call on the given tape and moves to   *)
(* the place next.  It leaves rng to the specification: a process run      *)
(* advances it (its tapes are a function of the seed), a call checked on   *)
(* its own lets the tape range over a bounded set.                         *)
(***************************************************************************)
invocation == <<num_students, seed, hashseed, run, prev_files>>

Call_generate_terms(next) ==
    /\ pc = "generate_terms"
    /\ terms' = generate_terms
    /\ pc' = next
    /\ UNCHANGED <<exc, invocation, uploader, files, courses, sections, advisors, students,
                   enrollments, courses_by_id, lms, adm, fin, adv>>

Call_generate_catalog(n, tape, next) ==
    /\ pc = "generate_catalog"
    /\ courses' = generate_catalog(n, tape)
    /\ pc' = next
    /\ UNCHANGED <<exc, invocation, uploader, files, terms, sections, advisors, students,
                   enrollments, courses_by_id, lms, adm, fin, adv>>

Call_generate_sections(tape, next) ==
    /\ pc = "generate_sections"
    /\ sections' = generate_sections(courses, terms, tape)
    /\ pc' = next
    /\ UNCHANGED <<exc, invocation, uploader, files, terms, courses, advisors, students,
                   enrollments, courses_by_id, lms, adm, fin, adv>>

Call_generate_advisors(n, next) ==
    /\ pc = "generate_advisors"
    /\ advisors' = generate_advisors(n)
    /\ pc' = next
    /\ UNCHANGED <<exc, invocation, uploader, files, terms, courses, sections, students,
                   enrollments, courses_by_id, lms, adm, fin, adv>>

Call_generate_students(tape, next) ==
    /\ pc = "generate_students"
    /\ students' = generate_students(num_students, terms, advisors, tape)
    /\ pc' = next
    /\ UNCHANGED <<exc, invocation, uploader, files, terms, courses, sections, advisors,
                   enrollments, courses_by_id, lms, adm, fin, adv>>

Call_generate_enrollments(tape, next) ==
    /\ pc = "generate_enrollments"
    /\ enrollments' = generate_enrollments(students, sections, terms, tape)
    /\ pc' = next
    /\ UNCHANGED <<exc, invocation, uploader, files, terms, courses, sections, advisors,
                   students, courses_by_id, lms, adm, fin, adv>>

Bind_courses_by_id(next) ==
    /\ pc = "courses_by_id"
    /\ courses_by_id' = CoursesById(courses)
    /\ pc' = next
    /\ UNCHANGED <<exc, invocation, uploader, files, terms, courses, sections, advisors,
                   students, enrollments, lms, adm, fin, adv>>

Call_generate_lms(tape, next) ==
    /\ pc = "generate_lms"
    /\ \E r \in {generate_lms(enrollments, sections, hashseed, tape)} :
           /\ xwalk' = r.xwalk
           /\ lms_logins' = r.lms_logins
           /\ submissions' = r.submissions
    /\ pc' = next
    /\ UNCHANGED <<exc, invocation, uploader, files, refdata, adm, fin, adv>>

Call_generate_admissions(tape, next) ==
    /\ pc = "generate_admissions"
    /\ LET r == generate_admissions(students, terms, tape)
       IN  /\ applications' = r.applications
           /\ tests' = r.tests
    /\ pc' = next
    /\ UNCHANGED <<exc, invocation, uploader, files, refdata, lms, fin, adv>>

\* An exception of the call is not caught: the process ends with it.
Call_generate_financials(tape, next) ==
    /\ pc = "generate_financials"
    /\ \E r \in {generate_financials(students, enrollments, courses_by_id, tape)} :
           IF r.exc = "none"
           THEN /\ student_accounts' = r.student_accounts
                /\ transactions' = r.transactions
                /\ aid_awards' = r.aid_awards
                /\ pc' = next
                /\ UNCHANGED exc
           ELSE /\ exc' = r.exc
                /\ pc' = "exit"
                /\ UNCHANGED fin
    /\ UNCHANGED <<invocation, uploader, files, refdata, lms, adm, adv>>

Call_generate_advising(tape, next) ==
    /\ pc = "generate_advising"
    /\ LET r == generate_advising(students, advisors, tape)
       IN  /\ appointments' = r.appointments
           /\ notes' = r.notes
    /\ pc' = next
    /\ UNCHANGED <<exc, invocation, uploader, files, refdata, lms, adm, fin>>

(***************************************************************************)
(* write_csv and the output tree                                           *)
(***************************************************************************)
Paths ==
    { "sis/students.csv", "sis/terms.csv", "sis/courses.csv", "sis/sections.csv",
      "sis/enrollments.csv",
      "lms/course_xwalk.csv", "lms/lms_logins.csv", "lms/submissions.csv",
      "admissions/applications.csv", "admissions/tests.csv",
      "financials/student_accounts.csv", "financials/transactions.csv",
      "financials/aid_awards.csv",
      "student_advising/advisors.csv", "student_advising/appointments.csv",
      "student_advising/notes.csv" }

EmptyTree == [p \in Paths |-> [exists |-> FALSE, rows |-> <<>>]]

\* open(path, "w") and one line per row: the file is replaced by the rows
write_csv(path, rows, here, next) ==
    /\ pc = here
    /\ files' = [files EXCEPT ![path] = [exists |-> TRUE, rows |-> rows]]
    /\ pc' = next
    /\ UNCHANGED <<exc, rng, invocation, uploader, refdata, lms, adm, fin, adv>>

(***************************************************************************)
(* main: one process run                                                   *)
(***************************************************************************)
\* random.seed(args.seed)
Main_seed ==
    /\ pc = "seed"
    /\ rng' = SeedState(seed)
    /\ pc' = "makedirs"
    /\ UNCHANGED <<exc, invocation, uploader, files, refdata, lms, adm, fin, adv>>

\* the five ensure_dir calls; os.makedirs raises OSError when a directory
\* cannot be created
Main_makedirs ==
    /\ pc = "makedirs"
    /\ \E created \in BOOLEAN :
          IF created
          THEN pc' = "generate_terms" /\ UNCHANGED exc
          ELSE pc' = "exit" /\ exc' = "OSError"
    /\ UNCHANGED <<rng, invocation, uploader, files, refdata, lms, adm, fin, adv>>

Main_generate_terms ==
    Call_generate_terms("generate_catalog") /\ UNCHANGED rng

Main_generate_catalog ==
    /\ Call_generate_catalog(MainCourses, RngCatalogTape(rng, MainCourses), "generate_sections")
    /\ rng' = NextRng(rng)

Main_generate_sections ==
    /\ Call_generate_sections(RngSectionTape(rng, Len(terms) * Len(courses)),
                              "generate_advisors")
    /\ rng' = NextRng(rng)

Main_generate_advisors ==
    /\ Call_generate_advisors(ModelAdvisors, "generate_students")
    /\ rng' = NextRng(rng)

Main_generate_students ==
    /\ Call_generate_students(RngStudentTape(rng, num_students, terms, advisors),
                              "generate_enrollments")
    /\ rng' = NextRng(rng)

Main_generate_enrollments ==
    /\ Call_generate_enrollments(RngEnrollTape(rng, students, sections, terms),
                                 "courses_by_id")
    /\ rng' = NextRng(rng)

Main_courses_by_id ==
    Bind_courses_by_id("write_students") /\ UNCHANGED rng

Main_write_students ==
    write_csv("sis/students.csv", students, "write_students", "write_terms")

Main_write_terms ==
    write_csv("sis/terms.csv", terms, "write_terms", "write_courses")

Main_write_courses ==
    write_csv("sis/courses.csv", courses, "write_courses", "write_sections")

Main_write_sections ==
    write_csv("sis/sections.csv", sections, "write_sections", "write_enrollments")

Main_write_enrollments ==
    write_csv("sis/enrollments.csv", enrollments, "write_enrollments", "generate_lms")

Main_generate_lms ==
    /\ Call_generate_lms(RngLmsTape(rng, enrollments), "write_xwalk")
    /\ rng' = NextRng(rng)

Main_write_xwalk ==
    write_csv("lms/course_xwalk.csv", xwalk, "write_xwalk", "write_lms_logins")

Main_write_lms_logins ==
    write_csv("lms/lms_logins.csv", lms_logins, "write_lms_logins", "write_submissions")

Main_write_submissions ==
    write_csv("lms/submissions.csv", submissions, "write_submissions", "generate_admissions")

Main_generate_admissions ==
    /\ Call_generate_admissions(RngAdmissionsTape(rng, students), "write_applications")
    /\ rng' = NextRng(rng)

Main_write_applications ==
    write_csv("admissions/applications.csv", applications, "write_applications", "write_tests")

Main_write_tests ==
    write_csv("admissions/tests.csv", tests, "write_tests", "generate_financials")

Main_generate_financials ==
    /\ Call_generate_financials(
           RngFinancialTape(rng, Len(GroupKeys(enrollments))),
           "write_student_accounts")
    /\ rng' = NextRng(rng)

Main_write_student_accounts ==
    write_csv("financials/student_accounts.csv", student_accounts,
              "write_student_accounts", "write_transactions")

Main_write_transactions ==
    write_csv("financials/transactions.csv", transactions,
              "write_transactions", "write_aid_awards")

Main_write_aid_awards ==
    write_csv("financials/aid_awards.csv", aid_awards, "write_aid_awards", "generate_advising")

Main_generate_advising ==
    /\ Call_generate_advising(RngAdvisingTape(rng, students, advisors), "write_advisors")
    /\ rng' = NextRng(rng)

Main_write_advisors ==
    write_csv("student_advising/advisors.csv", advisors, "write_advisors", "write_appointments")

Main_write_appointments ==
    write_csv("student_advising/appointments.csv", appointments,
              "write_appointments", "write_notes")

Main_write_notes ==
    write_csv("student_advising/notes.csv", notes, "write_notes", "print_done")

\* print("Data generation complete.") and the end of main
Main_done ==
    /\ pc = "print_done"
    /\ pc' = "exit"
    /\ UNCHANGED <<exc, rng, invocation, uploader, files, refdata, lms, adm, fin, adv>>

\* The script is started again with the same arguments on the same output
\* directory: a new process, with its own hash salt and nothing in memory.
Main_rerun ==
    /\ pc = "exit"
    /\ run < MaxRuns
    /\ run' = run + 1
    /\ prev_files' = files
    /\ hashseed' \in 0..MaxHashSeed
    /\ pc' = "seed"
    /\ exc' = "none"
    /\ rng' = 0
    /\ terms' = <<>> /\ courses' = <<>> /\ sections' = <<>> /\ advisors' = <<>>
    /\ students' = <<>> /\ enrollments' = <<>> /\ courses_by_id' = <<>>
    /\ xwalk' = <<>> /\ lms_logins' = <<>> /\ submissions' = <<>>
    /\ applications' = <<>> /\ tests' = <<>>
    /\ student_accounts' = <<>> /\ transactions' = <<>> /\ aid_awards' = <<>>
    /\ appointments' = <<>> /\ notes' = <<>>
    /\ UNCHANGED <<num_students, seed, files, uploader>>

\* generate_data.py runs no command of the upload script
NoUpload ==
    /\ upload_args = [bucket |-> "", region |-> "", env_region |-> "", is_dir |-> FALSE]
    /\ region = ""
    /\ commands = <<>>
    /\ status = -1

\* nothing bound yet
NoData ==
    /\ terms = <<>> /\ courses = <<>> /\ sections = <<>> /\ advisors = <<>>
    /\ students = <<>> /\ enrollments = <<>> /\ courses_by_id = <<>>
    /\ xwalk = <<>> /\ lms_logins = <<>> /\ submissions = <<>>
    /\ applications = <<>> /\ tests = <<>>
    /\ student_accounts = <<>> /\ transactions = <<>> /\ aid_awards = <<>>
    /\ appointments = <<>> /\ notes = <<>>

MainInit ==
    /\ pc = "seed"
    /\ exc = "none"
    /\ num_students \in -1..MaxStudents
    /\ seed \in 360..(360 + MaxSeeds - 1)
    /\ rng = 0
    /\ hashseed \in 0..MaxHashSeed
    /\ run = 1
    /\ files = EmptyTree
    /\ prev_files = EmptyTree
    /\ NoData
    /\ NoUpload

MainNext ==
    \/ Main_seed
    \/ Main_makedirs
    \/ Main_generate_terms
    \/ Main_generate_catalog
    \/ Main_generate_sections
    \/ Main_generate_advisors
    \/ Main_generate_students
    \/ Main_generate_enrollments
    \/ Main_courses_by_id
    \/ Main_write_students
    \/ Main_write_terms
    \/ Main_write_courses
    \/ Main_write_sections
    \/ Main_write_enrollments
    \/ Main_generate_lms
    \/ Main_write_xwalk
    \/ Main_write_lms_logins
    \/ Main_write_submissions
    \/ Main_generate_admissions
    \/ Main_write_applications
    \/ Main_write_tests
    \/ Main_generate_financials
    \/ Main_write_student_accounts
    \/ Main_write_transactions
    \/ Main_write_aid_awards
    \/ Main_generate_advising
    \/ Main_write_advisors
    \/ Main_write_appointments
    \/ Main_write_notes
    \/ Main_done
    \/ Main_rerun

\* The process runs of the script.
Spec == MainInit /\ [][MainNext]_vars

(***************************************************************************)
(* The calls checked on their own.  The arguments of a call are results of *)
(* the earlier calls (on fixed tapes); the tape of the call ranges over    *)
(* the draws its random calls can return, within the bounds.               *)
(***************************************************************************)
\* The tape of n iterations whose iteration j draws w and whose other
\* iterations all draw base.
TapeWith(n, j, w, base) == [i \in 1..n |-> IF i = j THEN w ELSE base]

\* the values of lo .. hi within MaxSpread of its ends
Ends(lo, hi) == {v \in lo..hi : v < lo + MaxSpread \/ v > hi - MaxSpread}

InitProcess(place) ==
    /\ NoUpload
    /\ pc = place
    /\ exc = "none"
    /\ seed = 360
    /\ rng = 0
    /\ hashseed = 0
    /\ run = 1
    /\ files = EmptyTree
    /\ prev_files = EmptyTree

\* ---- generate_catalog ---------------------------------------------------
CatalogInit ==
    /\ InitProcess("generate_catalog")
    /\ num_students = 0
    /\ NoData

Catalog_call ==
    /\ pc = "generate_catalog"
    /\ \E tape \in [1..CatalogCourses -> CatalogDraws] :
          Call_generate_catalog(CatalogCourses, tape, "returned")
    /\ UNCHANGED rng

SpecCatalog == CatalogInit /\ [][Catalog_call]_vars

\* ---- generate_students --------------------------------------------------
StudentsInit ==
    /\ InitProcess("generate_students")
    /\ num_students \in -1..PoolStudents
    /\ terms = generate_terms
    /\ advisors = generate_advisors(ModelAdvisors)
    /\ courses = <<>> /\ sections = <<>>
    /\ students = <<>> /\ enrollments = <<>> /\ courses_by_id = <<>>
    /\ xwalk = <<>> /\ lms_logins = <<>> /\ submissions = <<>>
    /\ applications = <<>> /\ tests = <<>>
    /\ student_accounts = <<>> /\ transactions = <<>> /\ aid_awards = <<>>
    /\ appointments = <<>> /\ notes = <<>>

Students_call ==
    /\ pc = "generate_students"
    /\ \E tape \in [1..Max(num_students, 0) -> StudentDraws(terms, advisors)] :
          Call_generate_students(tape, "returned")
    /\ UNCHANGED rng

SpecStudents == StudentsInit /\ [][Students_call]_vars

\* ---- the arguments of the later calls -----------------------------------
\* a catalog of n courses with n different ids
DistinctCatalogTape(n) ==
    [ i \in 1..n |->
        [subj |-> subjects[1], nbr |-> 100 + i, units |-> unit_choices[((3 * i) % 4) + 1]] ]

\* a catalog whose first two draws give the same subject and number
DuplicateCatalogTape(n) ==
    [ i \in 1..n |->
        [ subj  |-> subjects[1],
          nbr   |-> 100 + (IF i <= 2 THEN 1 ELSE i),
          units |-> unit_choices[((3 * i) % 4) + 1] ] ]

InputCatalogs ==
    { generate_catalog(InputCourses, tape) :
        tape \in {DistinctCatalogTape(InputCourses), DuplicateCatalogTape(InputCourses)} }

\* one section per course in the first term, two in the second, and in the
\* last term three for the first course and two for the others
InputSectionTape(n) ==
    [ p \in 1..(3 * n) |->
        [ num_sections |->
            CASE p <= n     -> 1
              [] p <= 2 * n -> 2
              [] OTHER      -> IF p = 2 * n + 1 THEN 3 ELSE 2 ] ]

InputSections(cs) == generate_sections(cs, generate_terms, InputSectionTape(Len(cs)))

\* admit terms alternate over the terms before the last, from either of them
InputStudentTapes(n) ==
    { [ i \in 1..n |->
          [ admit   |-> generate_terms[((i + first) % 2) + 1].term_id,
            advisor |-> generate_advisors(ModelAdvisors)[1].advisor_id ] ] :
      first \in {0, 1} }

InputStudentLists(n) ==
    { generate_students(n, generate_terms, generate_advisors(ModelAdvisors), tape) :
        tape \in InputStudentTapes(n) }

\* ---- generate_sections --------------------------------------------------
\* what one (term, course) pair can draw
SectionDraws == [num_sections : Range(section_choices)]

SectionsInit ==
    /\ InitProcess("generate_sections")
    /\ num_students = 0
    /\ terms = generate_terms
    /\ courses \in InputCatalogs
    /\ sections = <<>> /\ advisors = <<>>
    /\ students = <<>> /\ enrollments = <<>> /\ courses_by_id = <<>>
    /\ xwalk = <<>> /\ lms_logins = <<>> /\ submissions = <<>>
    /\ applications = <<>> /\ tests = <<>>
    /\ student_accounts = <<>> /\ transactions = <<>> /\ aid_awards = <<>>
    /\ appointments = <<>> /\ notes = <<>>

Sections_call ==
    /\ pc = "generate_sections"
    /\ \E tape \in [1..(Len(terms) * Len(courses)) -> SectionDraws] :
          Call_generate_sections(tape, "returned")
    /\ UNCHANGED rng

SpecSections == SectionsInit /\ [][Sections_call]_vars

\* ---- generate_enrollments -----------------------------------------------
\* The draws of one student: a sample of the current term without a prior
\* term, a sample of the prior term, or a sequence of grade letters.
CurrentSamples(ncur) == UNION {Samples(ncur, k) : k \in Range(current_sample_sizes)}

PriorSamples(nprior) == UNION {Samples(nprior, k) : k \in Range(prior_sample_sizes)}

GradeDraws == UNION {[1..k -> Range(grade_letters)] : k \in Range(prior_sample_sizes)}

FirstPositions(k) == [j \in 1..k |-> j]

EnrollDefaults ==
    { NoPrior([j \in 1..4 |-> j]),
      WithPrior([j \in 1..5 |-> j], [j \in 1..3 |-> j], [j \in 1..3 |-> grade_letters[j]]) }

EnrollInit ==
    /\ InitProcess("generate_enrollments")
    /\ num_students \in 0..InputStudents
    /\ terms = generate_terms
    /\ advisors = generate_advisors(ModelAdvisors)
    /\ courses \in InputCatalogs
    /\ sections = InputSections(courses)
    /\ students \in InputStudentLists(num_students)
    /\ enrollments = <<>> /\ courses_by_id = <<>>
    /\ xwalk = <<>> /\ lms_logins = <<>> /\ submissions = <<>>
    /\ applications = <<>> /\ tests = <<>>
    /\ student_accounts = <<>> /\ transactions = <<>> /\ aid_awards = <<>>
    /\ appointments = <<>> /\ notes = <<>>

\* One student of the call draws freely along one of the three lines, the
\* others all draw the same one of EnrollDefaults.
Enroll_call ==
    /\ pc = "generate_enrollments"
    /\ \E j \in 1..Max(Len(students), 1), base \in EnrollDefaults :
          \/ \E cur \in CurrentSamples(Len(sections_by_term(sections, terms[Len(terms)].term_id))) :
                Call_generate_enrollments(
                    TapeWith(Len(students), j, NoPrior(cur), base), "returned")
          \/ \E prior \in PriorSamples(Len(sections_by_term(sections, terms[Len(terms) - 1].term_id))) :
                Call_generate_enrollments(
                    TapeWith(Len(students), j,
                             WithPrior(FirstPositions(current_sample_sizes[1]), prior,
                                       [i \in 1..Len(prior) |-> grade_letters[1]]),
                             base),
                    "returned")
          \/ \E grades \in GradeDraws :
                Call_generate_enrollments(
                    TapeWith(Len(students), j,
                             WithPrior(FirstPositions(current_sample_sizes[1]),
                                       FirstPositions(Len(grades)), grades),
                             base),
                    "returned")
    /\ UNCHANGED rng

SpecEnroll == EnrollInit /\ [][Enroll_call]_vars

\* ---- generate_financials ------------------------------------------------
\* the enrollments handed to the call: odd students have a prior term
InputEnrollTape(n) ==
    [ i \in 1..n |->
        IF i % 2 = 1
        THEN WithPrior([j \in 1..4 |-> j], [j \in 1..3 |-> j], <<"A", "B", "F">>)
        ELSE NoPrior([j \in 1..5 |-> j]) ]

\* the payment amounts of one group: 1, 2 or 3 draws of randint(200, 2000)
FinAmounts == UNION {[1..k -> Ends(200, 2000)] : k \in Range(payment_counts)}

\* 1, 2 or 3 payments of fixed amounts
FinPaymentPlans ==
    {[j \in 1..k |-> IF j % 2 = 1 THEN 200 ELSE 2000] : k \in Range(payment_counts)}

\* The draws of one group: rate, fees and aid drawn freely with one of the
\* fixed payment plans, or the payment amounts drawn freely with fixed rate,
\* fees and aid.
FinDraws ==
    [ rate    : {350, 650},
      fees    : Ends(100, 400),
      has_aid : {TRUE},
      aid     : Ends(500, 3500),
      amts    : FinPaymentPlans ]
    \cup
    [ rate    : {350, 650},
      fees    : Ends(100, 400),
      has_aid : {FALSE},
      aid     : {0},
      amts    : FinPaymentPlans ]
    \cup
    [ rate    : {350},
      fees    : {100},
      has_aid : {TRUE},
      aid     : {500},
      amts    : FinAmounts ]

FinDefaults ==
    { [rate |-> 350, fees |-> 100, has_aid |-> FALSE, aid |-> 0, amts |-> <<200>>],
      [rate |-> 650, fees |-> 400, has_aid |-> TRUE, aid |-> 3500, amts |-> <<2000, 200>>] }

FinInit ==
    /\ InitProcess("generate_financials")
    /\ num_students \in 0..InputStudents
    /\ terms = generate_terms
    /\ advisors = generate_advisors(ModelAdvisors)
    /\ courses \in InputCatalogs
    /\ sections = InputSections(courses)
    /\ students \in InputStudentLists(num_students)
    /\ enrollments = generate_enrollments(students, sections, terms,
                                          InputEnrollTape(Len(students)))
    /\ courses_by_id = CoursesById(courses)
    /\ xwalk = <<>> /\ lms_logins = <<>> /\ submissions = <<>>
    /\ applications = <<>> /\ tests = <<>>
    /\ student_accounts = <<>> /\ transactions = <<>> /\ aid_awards = <<>>
    /\ appointments = <<>> /\ notes = <<>>

\* One group of the call draws freely, the others all draw the same one of
\* FinDefaults.
Fin_call ==
    /\ pc = "generate_financials"
    /\ \E j \in 1..Max(Len(GroupKeys(enrollments)), 1),
          base \in FinDefaults,
          d \in FinDraws :
          Call_generate_financials(
              TapeWith(Len(GroupKeys(enrollments)), j, d, base), "returned")
    /\ UNCHANGED rng

SpecFin == FinInit /\ [][Fin_call]_vars

\* ---- generate_admissions ------------------------------------------------
\* what one student can draw: no test, or a test of either type with a score
\* of the range of that type
AdmissionDraws ==
    [ complete_days : Ends(0, 200), decision_days : Ends(5, 30), has_test : {FALSE},
      test_type : {"SAT"}, test_days : {30}, score : {900} ]
    \cup
    [ complete_days : Ends(0, 200), decision_days : Ends(5, 30), has_test : {TRUE},
      test_type : {"ACT"}, test_days : Ends(30, 180), score : Ends(18, 35) ]
    \cup
    [ complete_days : Ends(0, 200), decision_days : Ends(5, 30), has_test : {TRUE},
      test_type : {"SAT"}, test_days : Ends(30, 180), score : Ends(900, 1550) ]

AdmissionDefaults ==
    { [ complete_days |-> 100, decision_days |-> 10, has_test |-> FALSE,
        test_type |-> "ACT", test_days |-> 60, score |-> 20 ],
      [ complete_days |-> 50, decision_days |-> 20, has_test |-> TRUE,
        test_type |-> "SAT", test_days |-> 90, score |-> 1200 ] }

AdmissionsInit ==
    /\ InitProcess("generate_admissions")
    /\ num_students \in 0..PoolStudents
    /\ terms = generate_terms
    /\ advisors = generate_advisors(ModelAdvisors)
    /\ students \in InputStudentLists(num_students)
    /\ courses = <<>> /\ sections = <<>>
    /\ enrollments = <<>> /\ courses_by_id = <<>>
    /\ xwalk = <<>> /\ lms_logins = <<>> /\ submissions = <<>>
    /\ applications = <<>> /\ tests = <<>>
    /\ student_accounts = <<>> /\ transactions = <<>> /\ aid_awards = <<>>
    /\ appointments = <<>> /\ notes = <<>>

\* One student of the call draws freely, the others all draw the same one of
\* AdmissionDefaults.
Admissions_call ==
    /\ pc = "generate_admissions"
    /\ \E j \in 1..Max(Len(students), 1), base \in AdmissionDefaults, d \in AdmissionDraws :
          Call_generate_admissions(TapeWith(Len(students), j, d, base), "returned")
    /\ UNCHANGED rng

SpecAdmissions == AdmissionsInit /\ [][Admissions_call]_vars

\* ---- generate_lms -------------------------------------------------------
\* (end_dt - start_dt).days of a term
TermSpan(term_id) == term_dates(term_id).end_dt - term_dates(term_id).start_dt

\* what one login event can draw
LoginDraws(span) == [days : Ends(0, span), hours : Ends(8, 20), minutes : Ends(0, 59)]

\* what one submission can draw
SubmissionDraws(span) == [days : Ends(7, span), score : Ends(60, 100)]

\* fixed draws of one enrollment
LmsDefault ==
    [ logins |-> [ j \in 1..logins_per_enrollment |->
                     [days |-> j, hours |-> 8 + j, minutes |-> 5 * j] ],
      subs   |-> [aidx \in 1..4 |-> [days |-> 7 + aidx, score |-> 60 + 10 * aidx]] ]

LmsInit ==
    /\ InitProcess("generate_lms")
    /\ num_students \in 0..InputStudents
    /\ terms = generate_terms
    /\ advisors = generate_advisors(ModelAdvisors)
    /\ courses \in InputCatalogs
    /\ sections = InputSections(courses)
    /\ students \in InputStudentLists(num_students)
    /\ enrollments = generate_enrollments(students, sections, terms,
                                          InputEnrollTape(Len(students)))
    /\ courses_by_id = CoursesById(courses)
    /\ xwalk = <<>> /\ lms_logins = <<>> /\ submissions = <<>>
    /\ applications = <<>> /\ tests = <<>>
    /\ student_accounts = <<>> /\ transactions = <<>> /\ aid_awards = <<>>
    /\ appointments = <<>> /\ notes = <<>>

\* the first and the last of n positions
FirstLast(n) == {1, n} \cap 1..n

\* One login or one submission of the first or the last enrollment draws
\* freely, every other draw of the call is that of LmsDefault.
Lms_call ==
    /\ pc = "generate_lms"
    /\ \/ /\ enrollments = <<>>
          /\ Call_generate_lms(<<>>, "returned")
       \/ \E e \in FirstLast(Len(enrollments)), k \in FirstLast(logins_per_enrollment) :
             \E d \in LoginDraws(TermSpan(enrollments[e].term_id)) :
                Call_generate_lms(
                    TapeWith(Len(enrollments), e,
                             [LmsDefault EXCEPT !.logins[k] = d], LmsDefault),
                    "returned")
       \/ \E e \in FirstLast(Len(enrollments)), aidx \in FirstLast(4) :
             \E d \in SubmissionDraws(TermSpan(enrollments[e].term_id)) :
                Call_generate_lms(
                    TapeWith(Len(enrollments), e,
                             [LmsDefault EXCEPT !.subs[aidx] = d], LmsDefault),
                    "returned")
    /\ UNCHANGED rng

SpecLms == LmsInit /\ [][Lms_call]_vars

\* ---- generate_advising --------------------------------------------------
\* what one appointment can draw: an advisor of the pool, the first or the
\* last of the months, the first or the last day, a note or none
AppointmentDraws(advs) ==
    [ advisor  : {advs[i].advisor_id : i \in 1..Len(advs)},
      month    : {appointment_months[1], appointment_months[Len(appointment_months)]},
      day      : Ends(1, 28),
      has_note : BOOLEAN ]

\* the draw of the other appointments of a student: the first advisor on the
\* first day of the first month, with or without a note
AppointmentDefaults(advs) ==
    [ advisor : {advs[1].advisor_id}, month : {appointment_months[1]}, day : {1},
      has_note : BOOLEAN ]

\* what one student can draw: k appointments, k one of appointment_counts,
\* one of them drawn freely and the others all the same
AdvisingDraws(advs) ==
    { [appts |-> a] :
        a \in UNION { { [i \in 1..k |-> IF i = q THEN w ELSE other] :
                          q \in 1..k, w \in AppointmentDraws(advs),
                          other \in AppointmentDefaults(advs) } :
                      k \in Range(appointment_counts) \ {0} } }
    \cup { [appts |-> <<>>] }

AdvisingDefaults(advs) ==
    { [ appts |-> <<>> ],
      [ appts |-> << [ advisor |-> advs[1].advisor_id, month |-> 3, day |-> 14,
                       has_note |-> TRUE ] >> ] }

AdvisingInit ==
    /\ InitProcess("generate_advising")
    /\ num_students \in 0..InputStudents
    /\ terms = generate_terms
    /\ advisors = generate_advisors(ModelAdvisors)
    /\ students \in InputStudentLists(num_students)
    /\ courses = <<>> /\ sections = <<>>
    /\ enrollments = <<>> /\ courses_by_id = <<>>
    /\ xwalk = <<>> /\ lms_logins = <<>> /\ submissions = <<>>
    /\ applications = <<>> /\ tests = <<>>
    /\ student_accounts = <<>> /\ transactions = <<>> /\ aid_awards = <<>>
    /\ appointments = <<>> /\ notes = <<>>

\* One student of the call draws freely, the others all draw the same one of
\* AdvisingDefaults.
Advising_call ==
    /\ pc = "generate_advising"
    /\ \E j \in 1..Max(Len(students), 1), base \in AdvisingDefaults(advisors),
          d \in AdvisingDraws(advisors) :
          Call_generate_advising(TapeWith(Len(students), j, d, base), "returned")
    /\ UNCHANGED rng

SpecAdvising == AdvisingInit /\ [][Advising_call]_vars

(***************************************************************************)
(* upload_to_s3.py.  The process runs the commands of the AWS CLI one      *)
(* after the other; what a command does is outside the script, so its      *)
(* outcome is any of run_outcomes.                                         *)
(***************************************************************************)
\* exit codes of a child process: success, failure, the CLI's 254, killed
return_codes == {0, 1, 254, -9}

\* subprocess.run either cannot start the program or returns its exit code
run_outcomes ==
    {[raised |-> "FileNotFoundError", returncode |-> 0]}
    \cup {[raised |-> "none", returncode |-> rc] : rc \in return_codes}

\* Faulty variant of raised_by: only exit code 1 counts as a failure.
raised_by_exit_code_one(check, out) ==
    IF out.raised # "none" THEN out.raised
    ELSE IF check /\ out.returncode = 1 THEN "RuntimeError"
    ELSE "none"

\* the exception that leaves run(cmd, check), or "none"
raised_by(check, out) ==
    IF out.raised # "none" THEN out.raised
    ELSE IF check /\ out.returncode # 0 THEN "RuntimeError"
    ELSE "none"

\* the exception has reached the top of the process: "except Exception"
\* of __main__ exits with 1, and so does a SystemExit with a message
abort(e) ==
    /\ exc' = e
    /\ status' = 1
    /\ pc' = "exit"

\* run(cmd, check) at the place here, with the outcome out of the command
run_cmd(cmd, check, out, here, next) ==
    /\ pc = here
    /\ commands' = Append(commands, [cmd |-> cmd, raised |-> out.raised,
                                     returncode |-> out.returncode])
    /\ IF raised_by(check, out) = "none"
       THEN pc' = next /\ UNCHANGED <<exc, status>>
       ELSE abort(raised_by(check, out))

generator ==
    <<num_students, seed, rng, hashseed, run, files, prev_files,
      refdata, lms, adm, fin, adv>>

aws_cli_available ==
    /\ pc = "aws_cli_available"
    /\ \E out \in run_outcomes :
          /\ commands' = Append(commands, [cmd |-> "aws --version", raised |-> out.raised,
                                           returncode |-> out.returncode])
          /\ IF raised_by(TRUE, out) = "none"
             THEN pc' = "get_region" /\ UNCHANGED <<exc, status>>
             ELSE abort("SystemExit")
    /\ UNCHANGED <<generator, upload_args, region>>

regions == {"us-east-1", "us-west-2"}

get_region ==
    /\ pc = "get_region"
    /\ IF upload_args.region # ""
       THEN /\ region' = upload_args.region
            /\ pc' = "get_caller_identity"
            /\ UNCHANGED <<exc, status, commands>>
       ELSE IF upload_args.env_region # ""
       THEN /\ region' = upload_args.env_region
            /\ pc' = "get_caller_identity"
            /\ UNCHANGED <<exc, status, commands>>
       ELSE \E out \in run_outcomes, stdout \in regions \cup {""} :
            /\ run_cmd("aws configure get region", FALSE, out,
                       "get_region", "get_caller_identity")
            /\ region' = IF raised_by(FALSE, out) # "none" THEN region
                         ELSE IF stdout = "" THEN "us-east-1" ELSE stdout
    /\ UNCHANGED <<generator, upload_args>>

get_caller_identity ==
    /\ pc = "get_caller_identity"
    /\ \E out \in run_outcomes :
          run_cmd("aws sts get-caller-identity", TRUE, out,
                  "get_caller_identity", "ensure_bucket")
    /\ UNCHANGED <<generator, upload_args, region>>

head_bucket_cmd(bucket) == "aws s3api head-bucket --bucket " \o bucket

create_bucket_cmd(bucket, reg) ==
    IF reg = "us-east-1"
    THEN "aws s3api create-bucket --bucket " \o bucket \o " --region " \o reg
    ELSE "aws s3api create-bucket --bucket " \o bucket \o " --region " \o reg
         \o " --create-bucket-configuration LocationConstraint=" \o reg

\* ensure_bucket up to the outcome of head-bucket
ensure_bucket_head ==
    /\ pc = "ensure_bucket"
    /\ \E head \in run_outcomes :
          /\ run_cmd(head_bucket_cmd(upload_args.bucket), FALSE, head, "ensure_bucket",
                     IF head.returncode = 0 THEN "upload_data" ELSE "create_bucket")
    /\ UNCHANGED <<generator, upload_args, region>>

\* ensure_bucket after a head-bucket that failed
ensure_bucket_create ==
    /\ pc = "create_bucket"
    /\ \E out \in run_outcomes :
          run_cmd(create_bucket_cmd(upload_args.bucket, region), TRUE, out,
                  "create_bucket", "upload_data")
    /\ UNCHANGED <<generator, upload_args, region>>

cp_cmd(bucket) == "aws s3 cp --recursive data/ s3://" \o bucket \o "/"

upload_data ==
    /\ pc = "upload_data"
    /\ IF ~upload_args.is_dir
       THEN abort("SystemExit") /\ UNCHANGED commands
       ELSE \E out \in run_outcomes :
                run_cmd(cp_cmd(upload_args.bucket), TRUE, out, "upload_data", "upload_complete")
    /\ UNCHANGED <<generator, upload_args, region>>

\* print("Upload complete.") and the end of the process
upload_complete ==
    /\ pc = "upload_complete"
    /\ pc' = "exit"
    /\ status' = 0
    /\ UNCHANGED <<exc, generator, upload_args, region, commands>>

UploadArgs ==
    [ bucket : {"snowflake_student_360_hol"}, region : regions \cup {""},
      env_region : regions \cup {""}, is_dir : BOOLEAN ]

UploadInit ==
    /\ pc = "aws_cli_available"
    /\ exc = "none"
    /\ num_students = 0
    /\ seed = 360
    /\ rng = 0
    /\ hashseed = 0
    /\ run = 1
    /\ files = EmptyTree
    /\ prev_files = EmptyTree
    /\ NoData
    /\ upload_args \in UploadArgs
    /\ region = ""
    /\ commands = <<>>
    /\ status = -1

UploadNext ==
    \/ aws_cli_available
    \/ get_region
    \/ get_caller_identity
    \/ ensure_bucket_head
    \/ ensure_bucket_create
    \/ upload_data
    \/ upload_complete

SpecUpload == UploadInit /\ [][UploadNext]_vars

(***************************************************************************)
(* Properties.  A call checked on its own has returned when pc is          *)
(* "returned"; a process run has ended when pc is "exit".                  *)
(***************************************************************************)
\* the rows of a list that carry the given student and term
RowsOf(rows, student_id, term_id) ==
    SelectSeq(rows, LAMBDA r : r.student_id = student_id /\ r.term_id = term_id)

\* the transactions of a list that have the given type
RowsOfType(rows, trans_type) == SelectSeq(rows, LAMBDA r : r.trans_type = trans_type)

AmountSum(rows) == SumSeq([i \in 1..Len(rows) |-> rows[i].amount])

\* ---- generate_financials (SpecFin) --------------------------------------
\* C1: every (student, term) group processed by generate_financials has its
\* StudentAccount row, whose balance is round(total_charges - total_payments,
\* 2) (all amounts are integers, so the rounding changes nothing), and the
\* amounts of the group's PAYMENT transactions plus the amount of the group's
\* aid award (0 when it has none) add up to the account's total_payments.
AccountsReconcile ==
    pc = "returned" =>
        /\ Len(student_accounts) = Len(GroupKeys(enrollments))
        /\ \A g \in 1..Len(student_accounts) :
              LET a        == student_accounts[g]
                  payments == AmountSum(RowsOfType(
                                  RowsOf(transactions, a.student_id, a.term_id), "PAYMENT"))
                  aid      == AmountSum(RowsOf(aid_awards, a.student_id, a.term_id))
              IN  /\ <<a.student_id, a.term_id>> = GroupKeys(enrollments)[g]
                  /\ a.balance = a.total_charges - a.total_payments
                  /\ payments + aid = a.total_payments

\* a call has returned a group with an aid award and two payments or more,
\* and a group without aid
AccountWithAidAndPayments ==
    /\ pc = "returned"
    /\ \E g, h \in 1..Len(student_accounts) :
          LET a == student_accounts[g]
              b == student_accounts[h]
          IN  /\ Len(RowsOf(aid_awards, a.student_id, a.term_id)) = 1
              /\ AmountSum(RowsOf(aid_awards, a.student_id, a.term_id)) > 0
              /\ Len(RowsOfType(RowsOf(transactions, a.student_id, a.term_id),
                                "PAYMENT")) >= 2
              /\ RowsOf(aid_awards, b.student_id, b.term_id) = <<>>

\* C2: for every (student, term) with a StudentAccount row the transactions
\* hold exactly one CHARGE of that (student, term), whose amount is the
\* account's total_charges; and every CHARGE belongs to a (student, term)
\* that has an account.
OneChargePerAccount ==
    pc = "returned" =>
        /\ \A g \in 1..Len(student_accounts) :
              LET a       == student_accounts[g]
                  charges == RowsOfType(
                                 RowsOf(transactions, a.student_id, a.term_id), "CHARGE")
              IN  Len(charges) = 1 /\ charges[1].amount = a.total_charges
        /\ \A t \in 1..Len(transactions) :
              transactions[t].trans_type = "CHARGE" =>
                  \E g \in 1..Len(student_accounts) :
                      /\ student_accounts[g].student_id = transactions[t].student_id
                      /\ student_accounts[g].term_id = transactions[t].term_id

\* a call has returned the accounts of two students, one of them with a group
\* in each of the two terms, and as many CHARGE rows as accounts
ChargesOfSeveralGroups ==
    /\ pc = "returned"
    /\ Len(RowsOfType(transactions, "CHARGE")) = Len(student_accounts)
    /\ \E g, h, k \in 1..Len(student_accounts) :
          /\ student_accounts[g].student_id = student_accounts[h].student_id
          /\ student_accounts[g].term_id # student_accounts[h].term_id
          /\ student_accounts[k].student_id # student_accounts[g].student_id
          /\ student_accounts[g].total_charges > 0

\* C16: a (student, term) has an AidAward row if and only if its account
\* received aid, i.e. its total_payments holds an amount other than 0 beyond
\* the group's PAYMENT transactions; it has at most one award, whose amount is
\* in 500..3500 and is that aid amount; and every award belongs to a (student,
\* term) with an account.
AwardIffAid ==
    pc = "returned" =>
        /\ \A g \in 1..Len(student_accounts) :
              LET a      == student_accounts[g]
                  awards == RowsOf(aid_awards, a.student_id, a.term_id)
                  aid    == a.total_payments
                            - AmountSum(RowsOfType(
                                  RowsOf(transactions, a.student_id, a.term_id), "PAYMENT"))
              IN  \/ awards = <<>> /\ aid = 0
                  \/ /\ Len(awards) = 1
                     /\ aid # 0
                     /\ awards[1].amount = aid
                     /\ awards[1].amount \in 500..3500
        /\ \A w \in 1..Len(aid_awards) :
              RowsOf(student_accounts, aid_awards[w].student_id, aid_awards[w].term_id) # <<>>

\* a call has returned an award of 3500 and an account without award
AwardAndNoAward ==
    /\ pc = "returned"
    /\ \E w \in 1..Len(aid_awards) : aid_awards[w].amount = 3500
    /\ \E g \in 1..Len(student_accounts) :
          RowsOf(aid_awards, student_accounts[g].student_id,
                 student_accounts[g].term_id) = <<>>

\* the position in the catalog of the course record from which the section
\* at position s was generated: generate_sections lists the sections term by
\* term and course by course, each (term, course) pair starting at number 1
SectionCourse(s) ==
    ((Cardinality({k \in 1..s : sections[k].section_nbr = 1}) - 1) % Len(courses)) + 1

\* the units of the course records from which a section with the id of the
\* enrollment was generated
EnrolledUnits(enr) ==
    { courses[SectionCourse(k)].units :
        k \in {x \in 1..Len(sections) :
                 sections[x].course_section_id = enr.course_section_id} }

\* the sums of one element of every set of a sequence of sets
RECURSIVE SumsOf(_)
SumsOf(sets) ==
    IF sets = <<>> THEN {0}
    ELSE {u + v : u \in sets[1], v \in SumsOf(Tail(sets))}

\* C17: the total_charges of every (student, term) group is U * rate + fee,
\* with U the sum over the group's enrollments of the units of the course
\* record the enrolled section was generated from, rate one of 350 and 650,
\* and fee in 100..400.
ChargesFromCourseUnits ==
    pc = "returned" =>
        \A g \in 1..Len(student_accounts) :
            LET a     == student_accounts[g]
                enrs  == RowsOf(enrollments, a.student_id, a.term_id)
                units == SumsOf([e \in 1..Len(enrs) |-> EnrolledUnits(enrs[e])])
            IN  \E U \in units, rate \in {350, 650} :
                    a.total_charges - U * rate \in 100..400

\* ---- generate_students (SpecStudents) ---------------------------------
\* the student was admitted in the first term and is in the third
FirstToThird(s) ==
    s.admit_term_id = terms[1].term_id /\ s.current_term_id = terms[3].term_id

\* C4, as stated: a student of generate_students admitted in the first of the
\* three terms, whose current term is the third, has class_standing "Senior".
FirstToThirdIsSenior ==
    pc = "returned" =>
        \A i \in 1..Len(students) :
            FirstToThird(students[i]) => students[i].class_standing = "Senior"

\* C4, amended: a student of generate_students admitted in the first of the
\* three terms, whose current term is the third, has class_standing "Junior"
\* (the two terms are two positions apart, and position 2 of the standings).
FirstToThirdIsJunior ==
    pc = "returned" =>
        \A i \in 1..Len(students) :
            FirstToThird(students[i]) => students[i].class_standing = "Junior"

\* a call has returned a student admitted in the first term
StudentAdmittedFirstTerm ==
    /\ pc = "returned"
    /\ Len(terms) = 3
    /\ \E i \in 1..Len(students) : FirstToThird(students[i])

\* the start date of the term with the given id
TermStart(term_id) == terms[IndexOf(TermIds(terms), term_id)].start_date

\* C5: every student of generate_students has an admit term that starts
\* before the current term, and the current term is the last term of the
\* list.
AdmitBeforeCurrent ==
    pc = "returned" =>
        \A i \in 1..Len(students) :
            /\ students[i].admit_term_id \in Range(TermIds(terms))
            /\ students[i].current_term_id = terms[Len(terms)].term_id
            /\ TermStart(students[i].admit_term_id) < TermStart(students[i].current_term_id)

\* a call has returned students admitted in two different terms
StudentsOfTwoAdmitTerms ==
    /\ pc = "returned"
    /\ \E i, j \in 1..Len(students) :
          students[i].admit_term_id # students[j].admit_term_id

\* ---- generate_advising (SpecAdvising) -----------------------------------
\* C18: generate_advising returns between 0 and 3 appointments for every
\* student and none for anyone else, each with an advisor of the pool; for
\* every student, advisor and date there are at most as many notes as
\* appointments (every note has an appointment of its own with the same
\* student_id, advisor_id and date, and no appointment has two notes); and
\* no two appointments share an appointment_id, no two notes a note_id.
AdvisingRows ==
    pc = "returned" =>
        /\ \A i \in 1..Len(students) :
              Cardinality({a \in 1..Len(appointments) :
                  appointments[a].student_id = students[i].student_id}) \in 0..3
        /\ \A a \in 1..Len(appointments) :
              /\ \E i \in 1..Len(students) :
                    students[i].student_id = appointments[a].student_id
              /\ \E v \in 1..Len(advisors) :
                    advisors[v].advisor_id = appointments[a].advisor_id
        /\ \A n \in 1..Len(notes) :
              Cardinality({m \in 1..Len(notes) :
                  /\ notes[m].student_id = notes[n].student_id
                  /\ notes[m].advisor_id = notes[n].advisor_id
                  /\ notes[m].note_dt = notes[n].note_dt})
              <= Cardinality({a \in 1..Len(appointments) :
                  /\ appointments[a].student_id = notes[n].student_id
                  /\ appointments[a].advisor_id = notes[n].advisor_id
                  /\ appointments[a].appointment_dt = notes[n].note_dt})
        /\ \A a, b \in 1..Len(appointments) :
              appointments[a].appointment_id = appointments[b].appointment_id => a = b
        /\ \A m, n \in 1..Len(notes) :
              notes[m].note_id = notes[n].note_id => m = n

\* a call has returned three appointments of one student with the same
\* advisor and date, two of them with a note, and a student has none
ThreeAppointmentsTwoNotes ==
    /\ pc = "returned"
    /\ Len(appointments) = 3 /\ Len(notes) = 2
    /\ Len(students) = 2
    /\ \A a \in 1..3 :
          /\ appointments[a].student_id = students[2].student_id
          /\ appointments[a].advisor_id = appointments[1].advisor_id
          /\ appointments[a].appointment_dt = appointments[1].appointment_dt

\* ---- generate_enrollments (SpecEnroll) ----------------------------------
\* the positions of the sections with the given id
SectionsWithId(course_section_id) ==
    {s \in 1..Len(sections) : sections[s].course_section_id = course_section_id}

\* C6: for every enrollment of generate_enrollments, the section it names
\* exists and every section with that course_section_id has the term_id of
\* the enrollment.
EnrollmentTermIsSectionTerm ==
    pc = "returned" =>
        \A e \in 1..Len(enrollments) :
            /\ SectionsWithId(enrollments[e].course_section_id) # {}
            /\ \A s \in SectionsWithId(enrollments[e].course_section_id) :
                  sections[s].term_id = enrollments[e].term_id

\* a call has returned enrollments of both terms, one of them naming a
\* course_section_id that two sections share
EnrollmentsOfBothTerms ==
    /\ pc = "returned"
    /\ \E e, f \in 1..Len(enrollments) :
          /\ enrollments[e].term_id # enrollments[f].term_id
          /\ Cardinality(SectionsWithId(enrollments[e].course_section_id)) >= 2

\* the letter -> point lookup the property fixes
GradeTable ==
    { <<"A", "4.0">>, <<"A-", "3.7">>, <<"B+", "3.3">>, <<"B", "3.0">>, <<"B-", "2.7">>,
      <<"C+", "2.3">>, <<"C", "2.0">>, <<"D", "1.0">>, <<"F", "0.0">> }

\* C7: every enrollment is ENROLLED or COMPLETED; an ENROLLED one has an
\* empty grade_letter and grade_points and is in the last term; a COMPLETED
\* one is in the second-to-last term, has a grade_letter of the fixed set and
\* the grade_points the fixed lookup gives that letter.
GradesFollowStatus ==
    pc = "returned" =>
        \A e \in 1..Len(enrollments) :
            LET enr == enrollments[e]
            IN  \/ /\ enr.enrollment_status = "ENROLLED"
                   /\ enr.grade_letter = ""
                   /\ enr.grade_points = ""
                   /\ enr.term_id = terms[Len(terms)].term_id
                \/ /\ enr.enrollment_status = "COMPLETED"
                   /\ enr.term_id = terms[Len(terms) - 1].term_id
                   /\ <<enr.grade_letter, enr.grade_points>> \in GradeTable

\* a call has returned an ENROLLED row and COMPLETED rows graded D and A-
CompletedWithGrades ==
    /\ pc = "returned"
    /\ \E e, f, g \in 1..Len(enrollments) :
          /\ enrollments[e].enrollment_status = "ENROLLED"
          /\ enrollments[f].enrollment_status = "COMPLETED"
          /\ enrollments[f].grade_letter = "D"
          /\ enrollments[g].grade_letter = "A-"

\* the number of enrollments of a student in a term
EnrollmentCount(student_id, term_id) == Len(RowsOf(enrollments, student_id, term_id))

\* C8: every student passed to generate_enrollments has 4 or 5 enrollments in
\* the last term and 0, 3 or 4 in the second-to-last term, and no enrollment
\* is in any other term.
EnrollmentCounts ==
    pc = "returned" =>
        /\ \A i \in 1..Len(students) :
              /\ EnrollmentCount(students[i].student_id, terms[Len(terms)].term_id)
                     \in {4, 5}
              /\ EnrollmentCount(students[i].student_id, terms[Len(terms) - 1].term_id)
                     \in {0, 3, 4}
        /\ \A e \in 1..Len(enrollments) :
              enrollments[e].term_id
                  \in {terms[Len(terms)].term_id, terms[Len(terms) - 1].term_id}

\* a call has returned 4 current and 4 prior rows for one student and 5
\* current and 3 prior rows for another
StudentsOfBothSampleSizes ==
    /\ pc = "returned"
    /\ \E i, j \in 1..Len(students) :
          /\ EnrollmentCount(students[i].student_id, terms[Len(terms)].term_id) = 4
          /\ EnrollmentCount(students[i].student_id, terms[Len(terms) - 1].term_id) = 4
          /\ EnrollmentCount(students[j].student_id, terms[Len(terms)].term_id) = 5
          /\ EnrollmentCount(students[j].student_id, terms[Len(terms) - 1].term_id) = 3

\* the position of a term in the list of terms
TermPosition(term_id) == IndexOf(TermIds(terms), term_id)

\* C21: every enrollment of generate_enrollments belongs to a student of the
\* list, and its term is the admit term of that student or a later term of
\* the list of terms; no enrollment is in a term before the student's admit
\* term.
NoEnrollmentBeforeAdmit ==
    pc = "returned" =>
        \A e \in 1..Len(enrollments) :
            /\ \E i \in 1..Len(students) :
                  students[i].student_id = enrollments[e].student_id
            /\ \A i \in 1..Len(students) :
                  students[i].student_id = enrollments[e].student_id
                  => TermPosition(students[i].admit_term_id)
                        <= TermPosition(enrollments[e].term_id)

\* a call has returned a COMPLETED enrollment of a student admitted in the
\* second-to-last term, in that term, and one of a student admitted earlier
CompletedInAdmitTerm ==
    /\ pc = "returned"
    /\ \E e, f \in 1..Len(enrollments), i, j \in 1..Len(students) :
          /\ students[i].student_id = enrollments[e].student_id
          /\ students[i].admit_term_id = terms[Len(terms) - 1].term_id
          /\ enrollments[e].term_id = students[i].admit_term_id
          /\ enrollments[e].enrollment_status = "COMPLETED"
          /\ students[j].student_id = enrollments[f].student_id
          /\ students[j].admit_term_id = terms[1].term_id
          /\ enrollments[f].enrollment_status = "COMPLETED"

\* C20: the enrollments of one student in one term have pairwise distinct
\* course_section_id values.
SectionIdsDistinctPerStudentTerm ==
    pc = "returned" =>
        \A i, j \in 1..Len(enrollments) :
            ( /\ enrollments[i].student_id = enrollments[j].student_id
              /\ enrollments[i].term_id = enrollments[j].term_id
              /\ enrollments[i].course_section_id = enrollments[j].course_section_id )
            => i = j

\* ---- generate_lms (SpecLms) ---------------------------------------------
\* the lms_course_id the crosswalk gives the section of an enrollment
XwalkIds(enr) ==
    { xwalk[x].lms_course_id :
        x \in {y \in 1..Len(xwalk) : xwalk[y].course_section_id = enr.course_section_id} }

\* C13: generate_lms generates exactly 6 login events and exactly 4
\* submissions for every enrollment passed to it (the rows of enrollment e are
\* the e-th block of 6, resp. 4, rows, with its student_id and the
\* lms_course_id of its section); the 4 submissions carry the assignment ids
\* A01, A02, A03, A04 once each, max_score 100 and a score in 60..100.
LmsRowsPerEnrollment ==
    pc = "returned" =>
        /\ Len(lms_logins) = 6 * Len(enrollments)
        /\ Len(submissions) = 4 * Len(enrollments)
        /\ \A e \in 1..Len(enrollments) :
              /\ \A j \in 1..6 :
                    LET row == lms_logins[6 * (e - 1) + j]
                    IN  /\ row.student_id = enrollments[e].student_id
                        /\ XwalkIds(enrollments[e]) = {row.lms_course_id}
              /\ \A a \in 1..4 :
                    LET row == submissions[4 * (e - 1) + a]
                    IN  /\ row.student_id = enrollments[e].student_id
                        /\ XwalkIds(enrollments[e]) = {row.lms_course_id}
                        /\ row.assignment_id = <<"A01", "A02", "A03", "A04">>[a]
                        /\ row.max_score = 100
                        /\ row.score \in 60..100

\* a call has returned the events of several enrollments, with a submission
\* scored 60 and one scored 100
SubmissionsOfSeveralEnrollments ==
    /\ pc = "returned"
    /\ Len(enrollments) >= 2
    /\ \E i, j \in 1..Len(submissions) :
          submissions[i].score = 60 /\ submissions[j].score = 100

\* the term of the catalog in which the enrollment lies
TermOf(enr) == terms[IndexOf(TermIds(terms), enr.term_id)]

\* C14, as stated, timestamps read as instants: every login event and every
\* submission of an enrollment has a timestamp between start_date (00:00)
\* and end_date (00:00) of the enrollment's term in the term catalog.
EventInstantsWithinTerm ==
    pc = "returned" =>
        \A e \in 1..Len(enrollments) :
            LET Within(ts) ==
                    /\ ts.day >= TermOf(enrollments[e]).start_date
                    /\ \/ ts.day < TermOf(enrollments[e]).end_date
                       \/ ts.day = TermOf(enrollments[e]).end_date /\ ts.minute = 0
            IN  /\ \A j \in 1..6 : Within(lms_logins[6 * (e - 1) + j].event_ts)
                /\ \A a \in 1..4 : Within(submissions[4 * (e - 1) + a].submitted_ts)

\* C14, amended: every login event and every submission of an enrollment
\* falls on a calendar day of start_date .. end_date of the enrollment's term
\* in the term catalog, a login at a time of day from 08:00 to 20:59 (on the
\* end date too) and a submission at 00:00.
EventDaysWithinTerm ==
    pc = "returned" =>
        \A e \in 1..Len(enrollments) :
            LET InTerm(ts) ==
                    /\ ts.day >= TermOf(enrollments[e]).start_date
                    /\ ts.day <= TermOf(enrollments[e]).end_date
            IN  /\ \A j \in 1..6 :
                      /\ InTerm(lms_logins[6 * (e - 1) + j].event_ts)
                      /\ lms_logins[6 * (e - 1) + j].event_ts.minute \in (8 * 60)..(20 * 60 + 59)
                /\ \A a \in 1..4 :
                      /\ InTerm(submissions[4 * (e - 1) + a].submitted_ts)
                      /\ submissions[4 * (e - 1) + a].submitted_ts.minute = 0

\* a call has returned a login on the end date of its term, at 20:59
EventsAtTermEnds ==
    /\ pc = "returned"
    /\ \E e \in 1..Len(enrollments), j \in 1..6 :
          /\ lms_logins[6 * (e - 1) + j].event_ts.day = TermOf(enrollments[e]).end_date
          /\ lms_logins[6 * (e - 1) + j].event_ts.minute = 20 * 60 + 59

\* ---- generate_admissions (SpecAdmissions) -------------------------------
\* C15: generate_admissions produces exactly one application per student,
\* with the student's admit_term_id as app_term_id and the decision "Admit",
\* and at most one test score per student; an ACT score is in 18..35 and a
\* SAT score in 900..1550.
OneApplicationPerStudent ==
    pc = "returned" =>
        /\ \A i \in 1..Len(students) :
              LET apps == SelectSeq(applications,
                                    LAMBDA a : a.student_id = students[i].student_id)
              IN  /\ Len(apps) = 1
                  /\ apps[1].app_term_id = students[i].admit_term_id
                  /\ apps[1].decision = "Admit"
                  /\ Len(SelectSeq(tests,
                                   LAMBDA t : t.student_id = students[i].student_id)) <= 1
        /\ \A a \in 1..Len(applications) :
              \E i \in 1..Len(students) : students[i].student_id = applications[a].student_id
        /\ \A t \in 1..Len(tests) :
              /\ \E i \in 1..Len(students) : students[i].student_id = tests[t].student_id
              /\ \/ tests[t].test_type = "ACT" /\ tests[t].score \in 18..35
                 \/ tests[t].test_type = "SAT" /\ tests[t].score \in 900..1550

\* a call has returned applications of two admit terms, an ACT score of 35
\* and a SAT score
TestsOfBothTypes ==
    /\ pc = "returned"
    /\ \E a, b \in 1..Len(applications) :
          applications[a].app_term_id # applications[b].app_term_id
    /\ \E t, u \in 1..Len(tests) :
          /\ tests[t].test_type = "ACT" /\ tests[t].score = 35
          /\ tests[u].test_type = "SAT"
---------------------------------------------
\* C3: two complete runs of the script with the same seed and student count
\* on the same output directory leave the same content in every output file,
\* the crosswalk and the lms_course_id columns included.
RerunLeavesSameFiles ==
    ( /\ run > 1
      /\ pc = "exit"
      /\ exc = "none"
      /\ \A p \in Paths : prev_files[p].exists )
    => files = prev_files

\* C9: a run given a student count of 0 or less ends rejected with an
\* InvalidArgument error.
NonPositiveCountRejected ==
    (num_students <= 0 /\ pc = "exit" /\ exc # "OSError") => exc = "InvalidArgument"

\* the places of main at which a generate_* call is still to be made
GeneratePlaces ==
    { "generate_terms", "generate_catalog", "generate_sections", "generate_advisors",
      "generate_students", "generate_enrollments", "generate_lms",
      "generate_admissions", "generate_financials", "generate_advising" }

\* C12: in a run of main no table is handed to write_csv before every table
\* has been generated (while a generate_* call is still to be made, the run
\* has written no file), and a run that ends normally has written every
\* table.
NoWriteBeforeAllGenerated ==
    /\ (run = 1 /\ pc \in GeneratePlaces) => files = EmptyTree
    /\ (pc = "exit" /\ exc = "none") => \A p \in Paths : files[p].exists

\* ---- generate_catalog (SpecCatalog) -------------------------------------
\* C10: no two courses of the list generate_catalog returns have the same
\* course_id.
CourseIdsUnique ==
    pc = "returned" =>
        \A i, j \in 1..Len(courses) :
            i # j => courses[i].course_id # courses[j].course_id


\* ---- generate_sections (SpecSections) -----------------------------------
\* the section numbers of the sections of a course id in a term
SectionNumbers(course_id, term_id) ==
    [ i \in 1..Len(SelectSeq(sections,
                    LAMBDA x : x.course_id = course_id /\ x.term_id = term_id)) |->
        SelectSeq(sections,
                  LAMBDA x : x.course_id = course_id /\ x.term_id = term_id)[i].section_nbr ]

\* C11: in the list generate_sections returns for the generated catalog and
\* the terms, no two sections have the same course_section_id, and the
\* section numbers of every (course, term) pair are 1, ..., n with n in
\* {1, 2, 3}.
SectionIdsUnique ==
    pc = "returned" =>
        /\ \A i, j \in 1..Len(sections) :
              i # j => sections[i].course_section_id # sections[j].course_section_id
        /\ \A c \in 1..Len(courses), t \in 1..Len(terms) :
              LET nbrs == SectionNumbers(courses[c].course_id, terms[t].term_id)
              IN  /\ Len(nbrs) \in {1, 2, 3}
                  /\ \A k \in 1..Len(nbrs) : nbrs[k] = k

\* ---- upload_to_s3.py (SpecUpload) ---------------------------------------
StartsWith(s, prefix) ==
    Len(s) >= Len(prefix) /\ SubSeq(s, 1, Len(prefix)) = prefix

\* the positions of the commands run so far that start with prefix
Issued(prefix) == {i \in 1..Len(commands) : StartsWith(commands[i].cmd, prefix)}

Succeeded(i) == commands[i].raised = "none" /\ commands[i].returncode = 0

\* C19: once head-bucket has succeeded no create-bucket command is issued;
\* when head-bucket has failed and create-bucket has failed the process has
\* ended with exit status 1 and without an upload; and the upload command
\* (aws s3 cp) is issued only after aws --version, aws sts
\* get-caller-identity and one of head-bucket and create-bucket succeeded.
UploadOnlyAfterChecks ==
    /\ (\E h \in Issued("aws s3api head-bucket") : Succeeded(h))
          => Issued("aws s3api create-bucket") = {}
    /\ ( /\ \E h \in Issued("aws s3api head-bucket") : ~Succeeded(h)
         /\ \E c \in Issued("aws s3api create-bucket") : ~Succeeded(c) )
          => /\ pc = "exit"
             /\ status = 1
             /\ Issued("aws s3 cp") = {}
    /\ \A u \in Issued("aws s3 cp") :
          /\ \E v \in Issued("aws --version") : v < u /\ Succeeded(v)
          /\ \E i \in Issued("aws sts get-caller-identity") : i < u /\ Succeeded(i)
          /\ \E b \in Issued("aws s3api head-bucket") \cup Issued("aws s3api create-bucket") :
                b < u /\ Succeeded(b)

\* head-bucket and create-bucket with a LocationConstraint have failed with
\* the CLI's code 254 and the process has ended
BucketNotOwnedAborts ==
    /\ pc = "exit"
    /\ exc = "RuntimeError"
    /\ \E h \in Issued("aws s3api head-bucket") : commands[h].returncode = 254
    /\ \E c \in Issued("aws s3api create-bucket") :
          /\ commands[c].returncode = 254
          /\ commands[c].cmd = create_bucket_cmd(upload_args.bucket, "us-west-2")

====
